---------------------------- MODULE Spec2Model ----------------------------
(***************************************************************************)
(* Model of the utility layer of "Search and Replace for Block Editor":    *)
(*   src/src/core/shortcut.tsx  (eligibility lists, case sensitivity,      *)
(*                               editor-root polling, version comparison)  *)
(*   src/unnamed/part_000       (SearchReplaceToolbarIcon)                 *)
(*                                                                         *)
(* JavaScript values are records tagged by their type in field t:          *)
(*   [t |-> "string", v |-> s], [t |-> "number", n |-> k],                 *)
(*   [t |-> "undefined"], [t |-> "null"], and objects [t |-> "object", ..] *)
(* whose further fields are the object's own properties.                   *)
(***************************************************************************)
EXTENDS Integers, Sequences, FiniteSets, TLC

VARIABLES
    blockTypes,    \* the block registry read by getBlockTypes(), in registration order
    filters,       \* hook name -> providers registered with addFilter, in registration order
    toolbarCall,   \* the last application of SearchReplaceToolbarIcon: settings in, result out
    caseCall,      \* the last result of isCaseSensitive()
    wpVersion,     \* srfbe.wpVersion, as the components of the dotted version
    versionCall,   \* the last call of isWpVersion: argument and result
    dom,           \* the selectors that currently match an element of the document
    root           \* the execution of getEditorRoot: selector, elapsedTime, timer, promise

vars == <<blockTypes, filters, toolbarCall, caseCall, wpVersion, versionCall, dom, root>>

---------------------------------------------------------------------------
(* Bounds of the model *)

MaxTypes == 2          \* block types in the registry
MaxProviders == 2      \* providers registered, all eligibility hooks together
MaxCaseProviders == 4  \* providers registered on the caseSensitive hook

---------------------------------------------------------------------------
(* JavaScript values *)

Str(s) == [t |-> "string", v |-> s]
Num(k) == [t |-> "number", n |-> k]
Undefined == [t |-> "undefined"]
Null == [t |-> "null"]

Elems(list) == {list[i] : i \in 1..Len(list)}

\* Array.prototype.indexOf compares with ===; -1 when absent, else the
\* (0-based) first index.
IndexOf(list, x) ==
    IF \E i \in 1..Len(list) : list[i] = x
    THEN (CHOOSE i \in 1..Len(list) :
             list[i] = x /\ \A j \in 1..(i - 1) : list[j] # x) - 1
    ELSE -1

\* block.hasOwnProperty("name"): a TypeError on null and undefined, false on
\* a string or number primitive, else whether the object has the property.
CanReadProperty(x) == x.t \notin {"null", "undefined"}
HasOwnName(x) == x.t = "object" /\ "name" \in DOMAIN x

---------------------------------------------------------------------------
(* Hooks *)

HookAllowed == "search-replace-for-block-editor.allowedBlocks"
HookFields == "search-replace-for-block-editor.allowedBlocksAndFields"
HookRestricted == "search-replace-for-block-editor.restrictedBlocks"
HookCase == "search-replace-for-block-editor.caseSensitive"
Hooks == {HookAllowed, HookFields, HookRestricted, HookCase}

\* A provider is the callback given to addFilter.  "push" appends its items
\* to the list it receives and returns it, "replace" returns its own list,
\* "const" returns a fixed boolean, "negate" the negation of what it receives.
ApplyProvider(p, value) ==
    CASE p.op = "push" -> value \o p.items
      [] p.op = "replace" -> p.items
      [] p.op = "const" -> p.b
      [] p.op = "negate" -> ~value

RECURSIVE RunProviders(_, _)
RunProviders(ps, value) ==
    IF ps = <<>> THEN value
    ELSE RunProviders(Tail(ps), ApplyProvider(Head(ps), value))

\* applyFilters(hook, value): the value passed through every provider of the
\* hook in registration order; the value itself when none is registered.
applyFilters(flt, hook, value) == RunProviders(flt[hook], value)

---------------------------------------------------------------------------
(* Eligibility lists *)

RECURSIVE SelectText(_)
SelectText(types) ==
    IF types = <<>> THEN <<>>
    ELSE IF Head(types).category = "text"
         THEN <<Str(Head(types).name)>> \o SelectText(Tail(types))
         ELSE SelectText(Tail(types))

getTextBlocksAll(types) == [i \in 1..Len(types) |-> Str(types[i].name)]

\* getTextBlocks(): the names of the registered types of category 'text'.
getTextBlocks(types) == SelectText(types)

\* getAllowedBlocksAndFields(): the text blocks passed through the
\* allowedBlocksAndFields hook.
getAllowedBlocksAndFields(types, flt) ==
    applyFilters(flt, HookFields, getTextBlocks(types))

\* The callback of the map in getAllowedBlocks: block.name when the entry
\* has an own property 'name', else undefined (no return statement).
FieldBlockName(block) == IF HasOwnName(block) THEN block.name ELSE Undefined

getAllowedBlocksNoFields(types, flt) ==
    LET blocks == applyFilters(flt, HookAllowed, getTextBlocks(types))
        entries == getAllowedBlocksAndFields(types, flt)
    IN  IF \E i \in 1..Len(entries) : ~CanReadProperty(entries[i])
        THEN [threw |-> TRUE]
        ELSE [threw |-> FALSE, value |-> blocks]

getAllowedBlocksOnlyFields(types, flt) ==
    LET entries == getAllowedBlocksAndFields(types, flt)
        fieldBlocks == [i \in 1..Len(entries) |-> FieldBlockName(entries[i])]
    IN  IF \E i \in 1..Len(entries) : ~CanReadProperty(entries[i])
        THEN [threw |-> TRUE]
        ELSE [threw |-> FALSE, value |-> fieldBlocks]

\* getAllowedBlocks(): [...blocks, ...fieldBlocks], or a TypeError thrown by
\* the map callback on an entry that is null or undefined.
getAllowedBlocks(types, flt) ==
    LET blocks == applyFilters(flt, HookAllowed, getTextBlocks(types))
        entries == getAllowedBlocksAndFields(types, flt)
        fieldBlocks == [i \in 1..Len(entries) |-> FieldBlockName(entries[i])]
    IN  IF \E i \in 1..Len(entries) : ~CanReadProperty(entries[i])
        THEN [threw |-> TRUE]
        ELSE [threw |-> FALSE, value |-> blocks \o fieldBlocks]

---------------------------------------------------------------------------
(* Toolbar *)

\* The edit function installed at part_000:29-54: it closes over the
\* original edit of the settings.
ToolbarEdit(edit) == [fn |-> "toolbar", inner |-> edit]

\* What an edit function renders for props: an original edit its own
\* element; the toolbar edit a Fragment of the BlockControls and edit(props).
RenderOriginal(e, props) == [el |-> e.id, props |-> props]
Render(e, props) ==
    IF e.fn = "toolbar"
    THEN [el |-> "Fragment",
          children |-> <<[el |-> "BlockControls"], RenderOriginal(e.inner, props)>>]
    ELSE RenderOriginal(e, props)

SearchReplaceToolbarIconInverted(types, flt, settings) ==
    LET allowed == getAllowedBlocks(types, flt)
    IN  IF allowed.threw THEN [threw |-> TRUE]
        ELSE IF IndexOf(allowed.value, settings.name) # -1
             THEN [threw |-> FALSE, value |-> settings]
             ELSE [threw |-> FALSE,
                   value |-> [settings EXCEPT !.edit = ToolbarEdit(settings.edit)]]

\* SearchReplaceToolbarIcon(settings): the settings as given when the name is
\* not in getAllowedBlocks(), else with edit replaced; the TypeError of
\* getAllowedBlocks() propagates.
SearchReplaceToolbarIcon(types, flt, settings) ==
    LET allowed == getAllowedBlocks(types, flt)
    IN  IF allowed.threw THEN [threw |-> TRUE]
        ELSE IF IndexOf(allowed.value, settings.name) = -1
             THEN [threw |-> FALSE, value |-> settings]
             ELSE [threw |-> FALSE,
                   value |-> [settings EXCEPT !.edit = ToolbarEdit(settings.edit)]]

---------------------------------------------------------------------------
(* Case sensitivity *)

isCaseSensitiveDefaultTrue(flt) == applyFilters(flt, HookCase, TRUE)

\* isCaseSensitive(): false passed through the caseSensitive hook.
isCaseSensitive(flt) == applyFilters(flt, HookCase, FALSE)

---------------------------------------------------------------------------
(* Version comparison *)

RECURSIVE Pow10(_)
Pow10(k) == IF k = 0 THEN 1 ELSE 10 * Pow10(k - 1)

\* getNumberToBase10(values): the sum of values[index] * 10^(length-1-index).
RECURSIVE SumBase10(_, _)
SumBase10(values, index) ==
    IF index > Len(values) THEN 0
    ELSE values[index] * Pow10(Len(values) - index) + SumBase10(values, index + 1)

getNumberToBase10(values) == SumBase10(values, 1)

\* isWpVersion(version): version.split('.').map(Number) and the same of
\* srfbe.wpVersion, compared as their base-10 numbers.  A dotted version is
\* modelled by the sequence of its components.
isWpVersion(version) ==
    ~(getNumberToBase10(wpVersion) < getNumberToBase10(version))

---------------------------------------------------------------------------
(* Editor root *)

interval == 100
TimeoutIntervals == 600

SelectorNew == ".editor-header__toolbar"
SelectorOld == ".edit-post-header__toolbar"
Selectors == {SelectorNew, SelectorOld}

RootError == "Unable to get Editor root container..."

Pending == [state |-> "pending"]
Fulfilled(value) == [state |-> "fulfilled", value |-> value]
Rejected(reason) == [state |-> "rejected", reason |-> reason]

\* resolve and reject of a Promise settle it only while it is pending.
Settle(promise, outcome) == IF promise.state = "pending" THEN outcome ELSE promise

TimedOutEarly(elapsedTime) == elapsedTime >= TimeoutIntervals * interval

\* The timeout test of the interval callback.
TimedOut(elapsedTime) == elapsedTime > TimeoutIntervals * interval

TickRejectFirst(r, present) ==
    LET elapsedTime == r.elapsedTime + interval
        r1 == [r EXCEPT !.elapsedTime = elapsedTime]
        r2 == IF TimedOut(elapsedTime)
              THEN [r1 EXCEPT !.timer = FALSE,
                              !.promise = Settle(r1.promise, Rejected(RootError))]
              ELSE r1
    IN  IF present
        THEN [r2 EXCEPT !.timer = FALSE,
                        !.promise = Settle(r2.promise, Fulfilled(r.selector))]
        ELSE r2

\* One run of the setInterval callback: add the interval to elapsedTime,
\* query the selector, resolve and clear the timer when the element is
\* there, then reject and clear the timer when the time is up.
Tick(r, present) ==
    LET elapsedTime == r.elapsedTime + interval
        r1 == [r EXCEPT !.elapsedTime = elapsedTime]
        r2 == IF present
              THEN [r1 EXCEPT !.timer = FALSE,
                              !.promise = Settle(r1.promise, Fulfilled(r.selector))]
              ELSE r1
    IN  IF TimedOut(elapsedTime)
        THEN [r2 EXCEPT !.timer = FALSE,
                        !.promise = Settle(r2.promise, Rejected(RootError))]
        ELSE r2

---------------------------------------------------------------------------
(* Inputs *)

Names == {"core/paragraph", "core/image", "acf/hero"}
Categories == {"text", "media"}

AllowedProviders ==
    {[op |-> "push", items |-> <<Str("core/image")>>],
     [op |-> "push", items |-> <<Str("acf/hero")>>],
     [op |-> "replace", items |-> <<>>]}

FieldEntries ==
    {[t |-> "object", name |-> Str("acf/hero"), fields |-> <<"title">>],
     [t |-> "object", fields |-> <<"title">>],
     [t |-> "object", name |-> Num(5), fields |-> <<"title">>],
     Null}

FieldProviders == {[op |-> "push", items |-> <<e>>] : e \in FieldEntries}

RestrictedProviders == {[op |-> "push", items |-> <<Str("core/paragraph")>>]}

CaseProviders ==
    {[op |-> "const", b |-> TRUE], [op |-> "const", b |-> FALSE], [op |-> "negate"]}

ProvidersOf(hook) ==
    CASE hook = HookAllowed -> AllowedProviders
      [] hook = HookFields -> FieldProviders
      [] hook = HookRestricted -> RestrictedProviders
      [] hook = HookCase -> CaseProviders

EligibilityHooks == {HookAllowed, HookFields, HookRestricted}

EditFns == {[fn |-> "edit", id |-> "EditA"]}
SettingsNames == {Str(n) : n \in Names} \cup {Undefined}
SettingsInputs ==
    {[name |-> n, title |-> "Title", edit |-> e] : n \in SettingsNames, e \in EditFns}

PropsInputs == {"props1", "props2"}

VersionComponents == {0, 6, 7, 10}
MaxVersionLen == 3
Versions == UNION {[1..k -> VersionComponents] : k \in 1..MaxVersionLen}
RootVersions == {<<6, 5, 4>>, <<6, 6>>, <<6, 6, 0>>, <<6, 10, 0>>}

---------------------------------------------------------------------------
(* States and actions *)

NoCall == [made |-> FALSE]
RootIdle == [called |-> FALSE, selector |-> "", elapsedTime |-> 0, timer |-> FALSE,
             promise |-> [state |-> "none"], found |-> FALSE]

Init ==
    /\ blockTypes = <<>>
    /\ filters = [h \in Hooks |-> <<>>]
    /\ toolbarCall = NoCall
    /\ caseCall = NoCall
    /\ wpVersion = <<6, 6, 0>>
    /\ versionCall = NoCall
    /\ dom = {}
    /\ root = RootIdle

RegisteredNames == {blockTypes[i].name : i \in 1..Len(blockTypes)}

\* The host registers a block type; names are unique in the registry.
RegisterBlockType ==
    /\ Len(blockTypes) < MaxTypes
    /\ \E n \in Names \ RegisteredNames, c \in Categories :
          blockTypes' = Append(blockTypes, [name |-> n, category |-> c])
    /\ UNCHANGED <<filters, toolbarCall, caseCall, wpVersion, versionCall, dom, root>>

ProviderCount == Len(filters[HookAllowed]) + Len(filters[HookFields])
                     + Len(filters[HookRestricted])

\* addFilter(hook, namespace, provider) on one of the eligibility hooks.
AddFilter ==
    /\ ProviderCount < MaxProviders
    /\ \E h \in EligibilityHooks : \E p \in ProvidersOf(h) :
          filters' = [filters EXCEPT ![h] = Append(@, p)]
    /\ UNCHANGED <<blockTypes, toolbarCall, caseCall, wpVersion, versionCall, dom, root>>

\* The 'blocks.registerBlockType' filter runs SearchReplaceToolbarIcon on a
\* settings object.
ToolbarFilter ==
    /\ \E s \in SettingsInputs :
          toolbarCall' = [made |-> TRUE, settings |-> s,
                          result |-> SearchReplaceToolbarIcon(blockTypes, filters, s)]
    /\ UNCHANGED <<blockTypes, filters, caseCall, wpVersion, versionCall, dom, root>>

Next == RegisterBlockType \/ AddFilter \/ ToolbarFilter

Spec == Init /\ [][Next]_vars

\* addFilter on the caseSensitive hook.
AddCaseFilter ==
    /\ Len(filters[HookCase]) < MaxCaseProviders
    /\ \E p \in CaseProviders :
          filters' = [filters EXCEPT ![HookCase] = Append(@, p)]
    /\ UNCHANGED <<blockTypes, toolbarCall, caseCall, wpVersion, versionCall, dom, root>>

CallIsCaseSensitive ==
    /\ caseCall' = [made |-> TRUE, result |-> isCaseSensitive(filters)]
    /\ UNCHANGED <<blockTypes, filters, toolbarCall, wpVersion, versionCall, dom, root>>

CaseNext == AddCaseFilter \/ CallIsCaseSensitive

CaseSpec == Init /\ [][CaseNext]_vars

VersionInit ==
    /\ blockTypes = <<>>
    /\ filters = [h \in Hooks |-> <<>>]
    /\ toolbarCall = NoCall
    /\ caseCall = NoCall
    /\ wpVersion \in Versions
    /\ versionCall = NoCall
    /\ dom = {}
    /\ root = RootIdle

CallIsWpVersion ==
    /\ \E v \in Versions :
          versionCall' = [made |-> TRUE, version |-> v, result |-> isWpVersion(v)]
    /\ UNCHANGED <<blockTypes, filters, toolbarCall, caseCall, wpVersion, dom, root>>

VersionNext == CallIsWpVersion

VersionSpec == VersionInit /\ [][VersionNext]_vars

RootInit ==
    /\ blockTypes = <<>>
    /\ filters = [h \in Hooks |-> <<>>]
    /\ toolbarCall = NoCall
    /\ caseCall = NoCall
    /\ wpVersion \in RootVersions
    /\ versionCall = NoCall
    /\ dom \in SUBSET Selectors
    /\ root = RootIdle

\* getEditorRoot(): choose the selector, create the promise, start the timer.
GetEditorRoot ==
    /\ ~root.called
    /\ root' = [called |-> TRUE,
                selector |-> IF isWpVersion(<<6, 6, 0>>) THEN SelectorNew ELSE SelectorOld,
                elapsedTime |-> 0, timer |-> TRUE, promise |-> Pending, found |-> FALSE]
    /\ UNCHANGED <<blockTypes, filters, toolbarCall, caseCall, wpVersion, versionCall, dom>>

\* The timer fires and runs the callback; found records that some run of
\* the callback has seen the element.
IntervalCallback ==
    /\ root.timer
    /\ LET present == root.selector \in dom
       IN  root' = [Tick(root, present) EXCEPT !.found = root.found \/ present]
    /\ UNCHANGED <<blockTypes, filters, toolbarCall, caseCall, wpVersion, versionCall, dom>>

\* The host renders or removes a toolbar element.
DomChange ==
    /\ \E sel \in Selectors :
          dom' = IF sel \in dom THEN dom \ {sel} ELSE dom \cup {sel}
    /\ UNCHANGED <<blockTypes, filters, toolbarCall, caseCall, wpVersion, versionCall, root>>

RootNext == GetEditorRoot \/ IntervalCallback \/ DomChange

\* setInterval keeps firing the callback until clearInterval.
RootSpec == RootInit /\ [][RootNext]_vars /\ WF_vars(IntervalCallback)

---------------------------------------------------------------------------
(* Properties of getEditorRoot, under RootSpec *)

Settled == root.promise.state \in {"fulfilled", "rejected"}
LastPoll == (TimeoutIntervals + 1) * interval

\* C1: the wait of getEditorRoot is bounded.  Every execution's promise
\* eventually settles; when no run of the callback has seen the element by
\* the first poll past 600 intervals, the promise is rejected with the Error
\* and the timer is cleared; a rejection happens at exactly that poll; and
\* the timer never runs past it.
C1_BoundedWait ==
    /\ [](root.called => <>Settled)
    /\ []((root.called /\ ~root.found /\ root.elapsedTime > TimeoutIntervals * interval)
             => (root.promise = Rejected(RootError) /\ ~root.timer))
    /\ [](root.promise.state = "rejected"
             => (root.elapsedTime = LastPoll /\ ~root.found /\ ~root.timer))
    /\ [](root.timer => root.elapsedTime <= TimeoutIntervals * interval)

C1_Witness ==
    /\ root.called
    /\ root.promise = Rejected(RootError)
    /\ ~root.found
    /\ root.elapsedTime = LastPoll
    /\ ~root.timer

\* C10: every run of the interval callback finds the promise pending and the
\* timer set (so none runs after the promise settled); it resolves the
\* promise with the element when the element is present at that run, also
\* when the timeout is exceeded at the same run, rejects it when the element
\* is absent and the timeout is exceeded, else leaves it pending; and a
\* settled promise never changes.
C10_SettlesOnceAtFirstSight ==
    [][/\ root'.elapsedTime # root.elapsedTime =>
            /\ root.promise = Pending
            /\ root.timer
            /\ root'.promise =
                  IF root.selector \in dom THEN Fulfilled(root.selector)
                  ELSE IF root'.elapsedTime > TimeoutIntervals * interval
                       THEN Rejected(RootError)
                       ELSE Pending
            /\ root'.timer = (root'.promise = Pending)
       /\ Settled => (root'.promise = root.promise /\ root'.elapsedTime = root.elapsedTime)
      ]_vars

C10_Witness ==
    /\ root.promise = Fulfilled(root.selector)
    /\ root.elapsedTime = LastPoll
    /\ ~root.timer

---------------------------------------------------------------------------
(* Properties of the eligibility lists and the toolbar, under Spec *)

Allowed == getAllowedBlocks(blockTypes, filters)
AllowedHookOutput == applyFilters(filters, HookAllowed, getTextBlocks(blockTypes))
FieldsHookOutput == getAllowedBlocksAndFields(blockTypes, filters)
NamedInFields(x) ==
    \E i \in 1..Len(FieldsHookOutput) :
        HasOwnName(FieldsHookOutput[i]) /\ FieldsHookOutput[i].name = x
TextNames == {blockTypes[i].name : i \in {j \in 1..Len(blockTypes) : blockTypes[j].category = "text"}}
NoProviders == \A h \in Hooks : filters[h] = <<>>
ToolbarAttached(call) ==
    call.made /\ ~call.result.threw /\ call.result.value.edit = ToolbarEdit(call.settings.edit)

\* C2 as stated: a type name is a member of getAllowedBlocks() exactly when
\* it is in the output of the allowedBlocks hook; naming it in the
\* allowedBlocksAndFields hook does not by itself put it in scope.
C2_FiltersIndependent ==
    ~Allowed.threw =>
        \A n \in Names : Str(n) \in Elems(Allowed.value) <=> Str(n) \in Elems(AllowedHookOutput)

\* C2 amended: whenever getAllowedBlocks() returns, a type name is a member
\* exactly when it is in the output of the allowedBlocks hook or is the
\* 'name' of an entry of the output of the allowedBlocksAndFields hook.
C2_ScopeIsUnionOfBothHooks ==
    ~Allowed.threw =>
        \A n \in Names :
            Str(n) \in Elems(Allowed.value)
                <=> (Str(n) \in Elems(AllowedHookOutput) \/ NamedInFields(Str(n)))

C2_Witness ==
    /\ ~Allowed.threw
    /\ NamedInFields(Str("acf/hero"))
    /\ Str("acf/hero") \notin Elems(AllowedHookOutput)
    /\ Str("acf/hero") \in Elems(Allowed.value)
    /\ ToolbarAttached(toolbarCall)
    /\ toolbarCall.settings.name = Str("acf/hero")

\* C3: with no provider on any hook, the registered type names that are
\* members of getAllowedBlocks() are exactly those of category 'text'.
C3_DefaultIsTextCategory ==
    NoProviders =>
        /\ ~Allowed.threw
        /\ {n \in RegisteredNames : Str(n) \in Elems(Allowed.value)} = TextNames

C3_Witness ==
    /\ NoProviders
    /\ TextNames # {}
    /\ RegisteredNames \ TextNames # {}
    /\ ToolbarAttached(toolbarCall)
    /\ toolbarCall.settings.name \in {Str(n) : n \in TextNames}

\* C4: every name a provider of the restrictedBlocks hook adds to the
\* restricted list is not a member of getAllowedBlocks(), and
\* SearchReplaceToolbarIcon leaves the edit of a block of that name alone.
C4_RestrictedExcluded ==
    \A x \in Elems(applyFilters(filters, HookRestricted, <<>>)) :
        /\ ~Allowed.threw => x \notin Elems(Allowed.value)
        /\ \A s \in SettingsInputs :
              LET out == SearchReplaceToolbarIcon(blockTypes, filters, s)
              IN  (s.name = x /\ ~out.threw) => out.value.edit = s.edit

\* C5: getAllowedBlocks() does not fail and every element of the list it
\* returns is a string, whatever the providers return and also when none
\* is registered.
C5_MalformedAbsorbed ==
    /\ ~Allowed.threw
    /\ \A x \in Elems(Allowed.value) : x.t = "string"

\* C6: with two providers on the allowedBlocks hook that each append names
\* to the list they receive, getAllowedBlocks() holds every text-category
\* name and every appended name, and has the same members (and the same
\* outcome) with the two providers registered in the other order.
C6_AdditionsComposeByUnion ==
    LET ps == filters[HookAllowed]
    IN  (Len(ps) = 2 /\ ps[1].op = "push" /\ ps[2].op = "push") =>
            LET other == getAllowedBlocks(blockTypes,
                             [filters EXCEPT ![HookAllowed] = <<ps[2], ps[1]>>])
            IN  /\ other.threw = Allowed.threw
                /\ ~Allowed.threw =>
                      /\ {Str(n) : n \in TextNames} \cup Elems(ps[1].items)
                             \cup Elems(ps[2].items) \subseteq Elems(Allowed.value)
                      /\ Elems(other.value) = Elems(Allowed.value)

C6_Witness ==
    LET ps == filters[HookAllowed]
    IN  /\ Len(ps) = 2
        /\ ps[1] = [op |-> "push", items |-> <<Str("core/image")>>]
        /\ ps[2] = [op |-> "push", items |-> <<Str("acf/hero")>>]
        /\ TextNames = {"core/paragraph"}
        /\ {Str("core/paragraph"), Str("core/image"), Str("acf/hero")}
               \subseteq Elems(Allowed.value)
        /\ ToolbarAttached(toolbarCall)
        /\ toolbarCall.settings.name = Str("core/image")

\* C9: whenever getAllowedBlocks() returns, SearchReplaceToolbarIcon returns
\* the settings unchanged for a name that is not a member, and for a member
\* changes edit and nothing else, the new edit rendering what the original
\* edit renders for the same props.
C9_OnlyEligibleChanged ==
    ~Allowed.threw =>
        \A s \in SettingsInputs :
            LET out == SearchReplaceToolbarIcon(blockTypes, filters, s)
            IN  /\ ~out.threw
                /\ IF s.name \notin Elems(Allowed.value)
                   THEN out.value = s
                   ELSE /\ out.value.edit # s.edit
                        /\ [out.value EXCEPT !.edit = s.edit] = s
                        /\ \A props \in PropsInputs :
                              Render(s.edit, props)
                                  \in Elems(Render(out.value.edit, props).children)

C9_Witness ==
    /\ ~Allowed.threw
    /\ ToolbarAttached(toolbarCall)
    /\ toolbarCall.settings.name \in Elems(Allowed.value)
    /\ \E s \in SettingsInputs :
          /\ s.name \notin Elems(Allowed.value)
          /\ SearchReplaceToolbarIcon(blockTypes, filters, s).value = s

---------------------------------------------------------------------------
(* Property of isCaseSensitive, under CaseSpec *)

\* C7: with no provider on the caseSensitive hook isCaseSensitive() is
\* false; with providers it is what the last registered provider returns for
\* the value the earlier ones produced, so a last provider returning a fixed
\* boolean overrides all earlier ones.
C7_CaseSensitiveOverride ==
    LET ps == filters[HookCase]
        last == ps[Len(ps)]
        before == [filters EXCEPT ![HookCase] = SubSeq(ps, 1, Len(ps) - 1)]
    IN  IF ps = <<>>
        THEN isCaseSensitive(filters) = FALSE
        ELSE /\ isCaseSensitive(filters) = ApplyProvider(last, isCaseSensitive(before))
             /\ last.op = "const" => isCaseSensitive(filters) = last.b

C7_Witness ==
    LET ps == filters[HookCase]
    IN  /\ Len(ps) >= 2
        /\ ps[1] = [op |-> "const", b |-> FALSE]
        /\ ps[Len(ps)] = [op |-> "const", b |-> TRUE]
        /\ caseCall.made
        /\ caseCall.result = TRUE
        /\ isCaseSensitive(filters) = TRUE

---------------------------------------------------------------------------
(* Property of isWpVersion, under VersionSpec *)

Component(version, i) == IF i <= Len(version) THEN version[i] ELSE 0

\* version a >= version b, compared component by component from the left,
\* a missing component counting as 0.
VersionAtLeast(a, b) ==
    LET n == IF Len(a) > Len(b) THEN Len(a) ELSE Len(b)
    IN  \/ \A i \in 1..n : Component(a, i) = Component(b, i)
        \/ \E i \in 1..n :
              /\ Component(a, i) > Component(b, i)
              /\ \A j \in 1..(i - 1) : Component(a, j) = Component(b, j)

\* C8: isWpVersion(version) is true exactly when the system version is
\* greater than or equal to the argument, compared component by component.
C8_VersionAtLeast ==
    versionCall.made =>
        versionCall.result = VersionAtLeast(wpVersion, versionCall.version)

=============================================================================
